---- MODULE Spec2Model ----
(***************************************************************************)
(* Model of setup_wizard.py: one run of the wizard from the command line   *)
(* to the process exit.  Python values are tagged records (None, int,      *)
(* str); a str is a sequence of one-character strings, and the literal     *)
(* segments of an f-string are single elements of such a sequence.         *)
(***************************************************************************)
EXTENDS Integers, Sequences, FiniteSets, TLC

VARIABLES argv, args, pc, api_id_str, api_id, api_hash, session_string,
          e, out, stdin, imported, handshakes, printed, exit_status

vars == <<argv, args, pc, api_id_str, api_id, api_hash, session_string,
          e, out, stdin, imported, handshakes, printed, exit_status>>

(* ---------------------------- bounds ----------------------------------- *)
MaxFlagLen == 1
MaxIdLen == 2
MaxHashLen == 2

FlagIdChars == {"0", "1", "a", "-"}
IdChars == {"0", "1", "a", " ", "-"}
HashChars == {"a", " "}
Tokens == {<<"1", "A">>, <<"1", "B">>}

Strings(chars, n) == UNION {[1..k -> chars] : k \in 0..n}

(* ---------------------------- Python values ---------------------------- *)
None == [t |-> "None"]
PyInt(n) == [t |-> "int", v |-> n]
PyStr(s) == [t |-> "str", v |-> s]
NoStatus == -1

Truthy(x) ==
    CASE x.t = "None" -> FALSE
      [] x.t = "int" -> x.v # 0
      [] x.t = "str" -> Len(x.v) > 0

IsSpace(c) == c = " "
Digits == <<"0", "1", "2", "3", "4", "5", "6", "7", "8", "9">>
IsDigit(c) == \E d \in 1..10 : Digits[d] = c
DigitVal(c) == (CHOOSE d \in 1..10 : Digits[d] = c) - 1

RECURSIVE lstrip(_)
lstrip(s) == IF s # <<>> /\ IsSpace(Head(s)) THEN lstrip(Tail(s)) ELSE s

RECURSIVE rstrip(_)
rstrip(s) ==
    IF s # <<>> /\ IsSpace(s[Len(s)]) THEN rstrip(SubSeq(s, 1, Len(s) - 1)) ELSE s

strip(s) == rstrip(lstrip(s))

AllDigits(s) == s # <<>> /\ \A i \in 1..Len(s) : IsDigit(s[i])

RECURSIVE NatOf(_)
NatOf(s) == IF s = <<>> THEN 0 ELSE 10 * NatOf(SubSeq(s, 1, Len(s) - 1)) + DigitVal(s[Len(s)])

HasSign(s) == s # <<>> /\ Head(s) \in {"-", "+"}

(* int(s) of a str: surrounding whitespace ignored, an optional sign, then *)
(* decimal digits; anything else raises ValueError.                        *)
IntParses(s) == AllDigits(IF HasSign(strip(s)) THEN Tail(strip(s)) ELSE strip(s))

IntOf(s) ==
    LET b == strip(s)
    IN  IF HasSign(b)
        THEN (IF Head(b) = "-" THEN 0 - NatOf(Tail(b)) ELSE NatOf(Tail(b)))
        ELSE NatOf(b)

RECURSIVE NatToStr(_)
NatToStr(n) == IF n < 10 THEN <<Digits[n + 1]>> ELSE NatToStr(n \div 10) \o <<Digits[(n % 10) + 1]>>

IntToStr(n) == IF n < 0 THEN <<"-">> \o NatToStr(0 - n) ELSE NatToStr(n)

(* "{x}" in an f-string *)
Format(x) ==
    CASE x.t = "int" -> IntToStr(x.v)
      [] x.t = "str" -> x.v
      [] x.t = "None" -> <<"None">>

Contains(s, sub) ==
    \E i \in 0..(Len(s) - Len(sub)) : SubSeq(s, i + 1, i + Len(sub)) = sub

(* ---------------------------- parse_args ------------------------------- *)
(* A value after --api-id that starts with "-" is taken as the flag's      *)
(* argument only when it is "-" alone, a negative number, or holds a space. *)
TakenAsArgument(s) ==
    \/ s = <<>>
    \/ Head(s) # "-"
    \/ Len(s) = 1
    \/ AllDigits(Tail(s))
    \/ \E i \in 1..Len(s) : IsSpace(s[i])

ApiIdAccepted(a) ==
    a.api_id.t = "None" \/ (TakenAsArgument(a.api_id.v) /\ IntParses(a.api_id.v))

ParsedArgs(a) ==
    [api_id |-> IF a.api_id.t = "None" THEN None ELSE PyInt(IntOf(a.api_id.v)),
     api_hash |-> a.api_hash,
     demo |-> a.demo]

ParseExitStatus1(a) ==
    CASE a.help = "before" -> 0
      [] a.help # "before" /\ ~ApiIdAccepted(a) -> 1
      [] a.help = "after" /\ ApiIdAccepted(a) -> 0
      [] a.help = "absent" /\ ApiIdAccepted(a) /\ a.extra -> 1
      [] OTHER -> NoStatus

(* Exit status of parse_args when it does not return, NoStatus when it does *)
ParseExit(a) ==
    CASE a.help = "before" -> 0
      [] a.help # "before" /\ ~ApiIdAccepted(a) -> 2
      [] a.help = "after" /\ ApiIdAccepted(a) -> 0
      [] a.help = "absent" /\ ApiIdAccepted(a) /\ a.extra -> 2
      [] OTHER -> NoStatus

(* ---------------------------- print_config ----------------------------- *)
ConfigArgs(id, hash, sess) ==
    << <<"run">>, <<"--rm">>, <<"-i">>,
       <<"-e">>, <<"TELEGRAM_API_ID=">> \o Format(id),
       <<"-e">>, <<"TELEGRAM_API_HASH=">> \o Format(hash),
       <<"-e">>, <<"TELEGRAM_SESSION_STRING=">> \o Format(sess),
       <<"bayramannakov/telegram-mcp:latest">> >>

DockerCmdSwapped(id, hash, sess) ==
    <<"claude mcp add telegram-mcp -s user -- ", "docker run --rm -i ", "-e TELEGRAM_API_ID=">>
    \o Format(id) \o <<" ", "-e TELEGRAM_API_HASH=">>
    \o Format(sess) \o <<" ", "-e TELEGRAM_SESSION_STRING=">>
    \o Format(hash) \o <<" ", "bayramannakov/telegram-mcp:latest">>

DockerCmd(id, hash, sess) ==
    <<"claude mcp add telegram-mcp -s user -- ", "docker run --rm -i ", "-e TELEGRAM_API_ID=">>
    \o Format(id) \o <<" ", "-e TELEGRAM_API_HASH=">>
    \o Format(hash) \o <<" ", "-e TELEGRAM_SESSION_STRING=">>
    \o Format(sess) \o <<" ", "bayramannakov/telegram-mcp:latest">>

print_config(id, hash, sess) ==
    [k |-> "config",
     config |-> [mcpServers |-> [telegram |-> [command |-> <<"docker">>,
                                               args |-> ConfigArgs(id, hash, sess)]]],
     docker_cmd |-> DockerCmd(id, hash, sess)]

Line(kind) == [k |-> kind]

(* ---------------------------- initial state ---------------------------- *)
ArgvSet ==
    [demo : BOOLEAN,
     api_id : {None} \cup {PyStr(s) : s \in Strings(FlagIdChars, MaxFlagLen)},
     api_hash : {None} \cup {PyStr(s) : s \in Strings(HashChars, MaxFlagLen)},
     help : {"absent", "before", "after"},
     extra : BOOLEAN]

Init ==
    /\ argv \in ArgvSet
    /\ args = None
    /\ pc = "parse_args"
    /\ api_id_str = None
    /\ api_id = None
    /\ api_hash = None
    /\ session_string = None
    /\ e = None
    /\ out = <<>>
    /\ stdin = <<>>
    /\ imported = FALSE
    /\ handshakes = <<>>
    /\ printed = <<>>
    /\ exit_status = NoStatus

(* ---------------------------- actions ---------------------------------- *)
Exit(status) == pc' = "exited" /\ exit_status' = status

parse_args ==
    /\ pc = "parse_args"
    /\ IF ParseExit(argv) # NoStatus
       THEN /\ Exit(ParseExit(argv))
            /\ out' = Append(out, Line(IF ParseExit(argv) = 0 THEN "help" ELSE "usage_error"))
            /\ UNCHANGED args
       ELSE /\ args' = ParsedArgs(argv)
            /\ pc' = "main"
            /\ UNCHANGED <<out, exit_status>>
    /\ UNCHANGED <<argv, api_id_str, api_id, api_hash, session_string, e, stdin,
                   imported, handshakes, printed>>

DemoId == PyStr(<<"YOUR_API_ID">>)
DemoHash == PyStr(<<"YOUR_API_HASH">>)
DemoSession == PyStr(<<"YOUR_SESSION_STRING">>)

BothFlagsEither(a) == Truthy(a.api_id) \/ Truthy(a.api_hash)

(* line 136: if args.api_id and args.api_hash *)
BothFlags(a) == Truthy(a.api_id) /\ Truthy(a.api_hash)

IsDemoAfterFlags(a) == a.demo /\ ~(Truthy(a.api_id) /\ Truthy(a.api_hash))

(* line 122: if args.demo *)
IsDemo(a) == a.demo

show_demo ==
    /\ pc = "main"
    /\ IsDemo(args)
    /\ out' = out \o <<Line("demo_transcript"), Line("success"),
                       print_config(DemoId, DemoHash, DemoSession)>>
    /\ printed' = Append(printed, <<DemoId, DemoHash, DemoSession>>)
    /\ Exit(0)
    /\ UNCHANGED <<argv, args, api_id_str, api_id, api_hash, session_string, e, stdin,
                   imported, handshakes>>

UseProvided ==
    /\ pc = "main"
    /\ ~IsDemo(args)
    /\ BothFlags(args)
    /\ imported' = TRUE
    /\ api_id' = args.api_id
    /\ api_hash' = args.api_hash
    /\ out' = out \o <<Line("banner"), [k |-> "using_provided", id |-> Format(args.api_id)],
                       Line("step2")>>
    /\ pc' = "connect"
    /\ UNCHANGED <<argv, args, api_id_str, session_string, e, stdin, handshakes,
                   printed, exit_status>>

InputApiId ==
    /\ pc = "main"
    /\ ~IsDemo(args)
    /\ ~BothFlags(args)
    /\ imported' = TRUE
    /\ \E ans \in Strings(IdChars, MaxIdLen) :
          /\ stdin' = Append(stdin, [prompt |-> "API ID (number): ", answer |-> ans])
          /\ api_id_str' = PyStr(strip(ans))
    /\ out' = out \o <<Line("banner"), Line("step1")>>
    /\ pc' = "input_api_hash"
    /\ UNCHANGED <<argv, args, api_id, api_hash, session_string, e, handshakes,
                   printed, exit_status>>

InputApiHash ==
    /\ pc = "input_api_hash"
    /\ \E ans \in Strings(HashChars, MaxHashLen) :
          /\ stdin' = Append(stdin, [prompt |-> "API Hash (string): ", answer |-> ans])
          /\ api_hash' = PyStr(strip(ans))
    /\ pc' = "validate"
    /\ UNCHANGED <<argv, args, api_id_str, api_id, session_string, e, out, imported,
                   handshakes, printed, exit_status>>

RequiredMsg == "Error: Both API ID and API Hash are required."
NumberMsg == "Error: API ID must be a number."
NoError == "no error"

ValidationErrorSwapped(idstr, hash) ==
    IF ~IntParses(idstr.v) THEN NumberMsg
    ELSE IF ~Truthy(idstr) \/ ~Truthy(hash) THEN RequiredMsg
    ELSE NoError

ValidationErrorIdOnly(idstr, hash) ==
    IF ~Truthy(idstr) THEN RequiredMsg
    ELSE IF ~IntParses(idstr.v) THEN NumberMsg
    ELSE NoError

(* the two checks after the prompts, in the order the code makes them *)
ValidationError(idstr, hash) ==
    IF ~Truthy(idstr) \/ ~Truthy(hash) THEN RequiredMsg
    ELSE IF ~IntParses(idstr.v) THEN NumberMsg
    ELSE NoError

Validate ==
    /\ pc = "validate"
    /\ IF ValidationError(api_id_str, api_hash) # NoError
       THEN /\ out' = Append(out, Line(ValidationError(api_id_str, api_hash)))
            /\ Exit(1)
            /\ UNCHANGED api_id
       ELSE /\ api_id' = PyInt(IntOf(api_id_str.v))
            /\ out' = Append(out, Line("step2"))
            /\ pc' = "connect"
            /\ UNCHANGED exit_status
    /\ UNCHANGED <<argv, args, api_id_str, api_hash, session_string, e, stdin,
                   imported, handshakes, printed>>

OpenErrors == {"ConnectionError", "ApiIdInvalidError", "PhoneCodeInvalidError"}

(* with TelegramClient(StringSession(), api_id, api_hash) as client: *)
Connect ==
    /\ pc = "connect"
    /\ handshakes' = Append(handshakes, [api_id |-> api_id, api_hash |-> api_hash])
    /\ \/ pc' = "save" /\ UNCHANGED e
       \/ \E err \in OpenErrors : e' = PyStr(<<err>>) /\ pc' = "except"
    /\ UNCHANGED <<argv, args, api_id_str, api_id, api_hash, session_string, out,
                   stdin, imported, printed, exit_status>>

(* session_string = StringSession.save(client.session); an error leaves    *)
(* the with block through the client's __exit__, which may raise its own.  *)
Save ==
    /\ pc = "save"
    /\ \/ \E tok \in Tokens : session_string' = PyStr(tok) /\ pc' = "print" /\ UNCHANGED e
       \/ \E err \in {"SerializeError", "DisconnectError"} :
             e' = PyStr(<<err>>) /\ pc' = "except" /\ UNCHANGED session_string
    /\ UNCHANGED <<argv, args, api_id_str, api_id, api_hash, out, stdin, imported,
                   handshakes, printed, exit_status>>

PrintSuccess ==
    /\ pc = "print"
    /\ out' = out \o <<Line("success"), print_config(api_id, api_hash, session_string)>>
    /\ printed' = Append(printed, <<api_id, api_hash, session_string>>)
    /\ pc' = "close"
    /\ UNCHANGED <<argv, args, api_id_str, api_id, api_hash, session_string, e, stdin,
                   imported, handshakes, exit_status>>

(* the client's __exit__ at the normal end of the with block *)
Close ==
    /\ pc = "close"
    /\ \/ Exit(0) /\ UNCHANGED e
       \/ e' = PyStr(<<"DisconnectError">>) /\ pc' = "except" /\ UNCHANGED exit_status
    /\ UNCHANGED <<argv, args, api_id_str, api_id, api_hash, session_string, out,
                   stdin, imported, handshakes, printed>>

ExceptRetry ==
    /\ pc = "except"
    /\ out' = out \o <<[k |-> "error", text |-> Format(e)],
                       Line("Please check your credentials and try again.")>>
    /\ pc' = "connect"
    /\ UNCHANGED <<argv, args, api_id_str, api_id, api_hash, session_string, e, stdin,
                   imported, handshakes, printed, exit_status>>

Except ==
    /\ pc = "except"
    /\ out' = out \o <<[k |-> "error", text |-> Format(e)],
                       Line("Please check your credentials and try again.")>>
    /\ Exit(1)
    /\ UNCHANGED <<argv, args, api_id_str, api_id, api_hash, session_string, e, stdin,
                   imported, handshakes, printed>>

Next ==
    \/ parse_args
    \/ show_demo
    \/ UseProvided
    \/ InputApiId
    \/ InputApiHash
    \/ Validate
    \/ Connect
    \/ Save
    \/ PrintSuccess
    \/ Close
    \/ Except

Spec == Init /\ [][Next]_vars

(* ---------------------------- observations ----------------------------- *)
Exited == pc = "exited"
Parsed == args # None
AllSpaces(s) == \A i \in 1..Len(s) : s[i] = " "
Spaces(n) == [i \in 1..n |-> " "]

(* v is ans without its leading and trailing spaces *)
IsTrimOf(v, ans) ==
    /\ (v # <<>> => v[1] # " " /\ v[Len(v)] # " ")
    /\ \E i, j \in 0..Len(ans) : ans = Spaces(i) \o v \o Spaces(j)

(* s is an optionally signed run of decimal digits between spaces *)
IsIntText(s) ==
    \E i, j \in 0..Len(s) :
        /\ i + j < Len(s)
        /\ AllSpaces(SubSeq(s, 1, i))
        /\ AllSpaces(SubSeq(s, Len(s) - j + 1, Len(s)))
        /\ LET m == SubSeq(s, i + 1, Len(s) - j)
               d == IF m[1] \in {"-", "+"} THEN Tail(m) ELSE m
           IN  /\ d # <<>>
               /\ \A k \in 1..Len(d) :
                     d[k] \in {"0", "1", "2", "3", "4", "5", "6", "7", "8", "9"}

Blocks == SelectSeq(out, LAMBDA l : l.k = "config")
HasLine(kind) == \E i \in 1..Len(out) : out[i].k = kind
IdAnswer == stdin[1].answer
HashAnswer == stdin[2].answer
BothAnswered == Len(stdin) = 2

BadIdFlag == argv.api_id.t = "str" /\ ~IsIntText(argv.api_id.v)
ParserRejects ==
    argv.help # "before" /\ (BadIdFlag \/ (argv.help = "absent" /\ argv.extra))
HelpShown == argv.help = "before" \/ (argv.help = "after" /\ ~BadIdFlag)
DemoCompleted == Parsed /\ args.demo /\ Len(Blocks) = 1
AuthSucceeded == Len(handshakes) = 1 /\ e = None /\ Len(Blocks) = 1
AuthFailed == Len(handshakes) = 1 /\ e # None
InputInvalid ==
    /\ BothAnswered
    /\ (AllSpaces(IdAnswer) \/ AllSpaces(HashAnswer) \/ ~IsIntText(IdAnswer))

(* ---------------------------- claims ----------------------------------- *)

(* C1, as stated (a help request set aside): every terminated run has     *)
(* exit status 0 or 1, status 0 exactly for a completed demo or a          *)
(* successful authentication.                                              *)
C1_OnlyZeroOrOne ==
    (Exited /\ ~HelpShown)
           => /\ exit_status \in {0, 1}
              /\ (exit_status = 0 <=> (DemoCompleted \/ AuthSucceeded))

(* C1, amended: every terminated run has exit status 0, 1 or 2; status 2   *)
(* exactly when the argument parser rejects the command line, status 0     *)
(* exactly for a help request, a completed demo or an authentication       *)
(* session that ran to its end without error, and status 1 exactly when    *)
(* the prompted input is missing or invalid or an error was raised in the  *)
(* authentication session's scope.                                         *)
C1_ExitStatus ==
    Exited => /\ exit_status \in {0, 1, 2}
              /\ (exit_status = 2 <=> ParserRejects)
              /\ (exit_status = 0 <=> (HelpShown \/ DemoCompleted \/ AuthSucceeded))
              /\ (exit_status = 1 <=> (InputInvalid \/ AuthFailed))

C1_Witness == Exited /\ exit_status = 2 /\ argv.demo /\ BadIdFlag

(* C2: in a non-demo run with both --api-id and --api-hash supplied,       *)
(* whatever their values, no prompt is invoked and the flag values are     *)
(* the ones passed to the handshake.                                       *)
C2_FlagsSkipPrompts ==
    (Parsed /\ ~args.demo /\ args.api_id # None /\ args.api_hash # None)
        => /\ stdin = <<>>
           /\ \A i \in 1..Len(handshakes) :
                 handshakes[i] = [api_id |-> args.api_id, api_hash |-> args.api_hash]

(* C3: once the prompts have been reached, an identifier or secret answer  *)
(* that is empty or only whitespace lets the run end only with status 1,   *)
(* and the handshake is never started.                                     *)
C3_BlankAnswerExits1 ==
    (\E i \in 1..Len(stdin) : AllSpaces(stdin[i].answer))
        => /\ handshakes = <<>>
           /\ pc \in {"input_api_hash", "validate", "exited"}
           /\ (Exited => exit_status = 1)

C3_Witness ==
    /\ Exited /\ exit_status = 1 /\ BothAnswered
    /\ ~AllSpaces(IdAnswer) /\ HashAnswer = <<" ">>

(* C4, as stated: a non-numeric identifier answer ends the run with status *)
(* 1, the "must be a number" message and no handshake, whatever the secret *)
(* answer is.                                                              *)
C4_AlwaysNumberMessage ==
    (Exited /\ BothAnswered /\ ~AllSpaces(IdAnswer) /\ ~IsIntText(IdAnswer))
        => /\ exit_status = 1
           /\ HasLine(NumberMsg)
           /\ handshakes = <<>>

(* C4, amended: an identifier answer that is not blank and not an integer  *)
(* ends the run with status 1 and no handshake; the message is "must be a  *)
(* number" when the secret answer is not blank and "both are required"     *)
(* when it is blank.  A non-integer --api-id flag value is rejected by the *)
(* argument parser with status 2 and neither message.                      *)
C4_NonNumericId ==
    /\ (Exited /\ BothAnswered /\ ~AllSpaces(IdAnswer) /\ ~IsIntText(IdAnswer))
          => /\ exit_status = 1
             /\ handshakes = <<>>
             /\ (~AllSpaces(HashAnswer) => HasLine(NumberMsg) /\ ~HasLine(RequiredMsg))
             /\ (AllSpaces(HashAnswer) => HasLine(RequiredMsg) /\ ~HasLine(NumberMsg))
    /\ (Exited /\ BadIdFlag /\ argv.help # "before")
          => /\ exit_status = 2
             /\ handshakes = <<>>
             /\ ~HasLine(NumberMsg)

C4_Witness ==
    /\ Exited /\ BothAnswered /\ IdAnswer = <<"1", "a">> /\ ~AllSpaces(HashAnswer)
    /\ HasLine(NumberMsg)

C6_NoConfigOnFailure ==
    (Exited /\ exit_status = 1)
        => /\ Blocks = <<>>
           /\ (e # None =>
                 /\ Len(out) >= 2
                 /\ out[Len(out) - 1] = [k |-> "error", text |-> e.v]
                 /\ out[Len(out)].k = "Please check your credentials and try again.")

(* the text that stands for a value in the output *)
IsTextOf(txt, val) ==
    IF val.t = "int" THEN IsIntText(txt) /\ IntOf(txt) = val.v /\ ~(" " \in {txt[i] : i \in 1..Len(txt)})
    ELSE txt = val.v

EnvEntries(a) == {a[j + 1] : j \in {i \in 1..(Len(a) - 1) : a[i] = <<"-e">>}}
EnvKeys == {"TELEGRAM_API_ID=", "TELEGRAM_API_HASH=", "TELEGRAM_SESSION_STRING="}

(* C7: for every call of print_config, the JSON launch arguments hold      *)
(* exactly the three -e entries TELEGRAM_API_ID=<id>,                      *)
(* TELEGRAM_API_HASH=<hash>, TELEGRAM_SESSION_STRING=<token>, and the      *)
(* command string holds the three -e KEY=value fragments with the same     *)
(* values.                                                                 *)
C7_ConfigCarriesValues ==
    /\ Len(Blocks) = Len(printed)
    /\ \A n \in 1..Len(Blocks) :
          LET a == Blocks[n].config.mcpServers.telegram.args
              cmd == Blocks[n].docker_cmd
              in == printed[n]
              key == <<"TELEGRAM_API_ID=", "TELEGRAM_API_HASH=", "TELEGRAM_SESSION_STRING=">>
          IN  /\ Cardinality(EnvEntries(a)) = 3
              /\ {x \in {a[i] : i \in 1..Len(a)} : Head(x) \in EnvKeys} = EnvEntries(a)
              /\ \A m \in 1..3 :
                    \E x \in EnvEntries(a) :
                       /\ Head(x) = key[m]
                       /\ IsTextOf(Tail(x), in[m])
                       /\ Contains(cmd, <<"-e " \o key[m]>> \o Tail(x) \o <<" ">>)

C7_Witness ==
    /\ Len(printed) = 1 /\ printed[1][1] = PyInt(-1)
    /\ printed[1][2] = PyStr(<<"a", "a">>)

(* C8: on every path the handshake is started only with an integer         *)
(* identifier and a secret that is not empty after trimming.               *)
C8_HandshakeCredentialsValid ==
    \A i \in 1..Len(handshakes) :
        /\ handshakes[i].api_id.t = "int"
        /\ handshakes[i].api_hash.t = "str"
        /\ ~AllSpaces(handshakes[i].api_hash.v)

OneFlag == Parsed /\ ~args.demo /\ ((args.api_id = None) # (args.api_hash = None))

C10_PrintOnceAfterHandshake ==
    (Parsed /\ ~args.demo)
        => /\ Len(handshakes) <= 1
           /\ Len(Blocks) <= 1
           /\ Len(Blocks) = Len(printed)
           /\ Blocks # <<>> =>
                 /\ Len(handshakes) = 1
                 /\ pc \in {"close", "except", "exited"}
                 /\ session_string.t = "str" /\ session_string.v \in Tokens
                 /\ printed[1] = <<handshakes[1].api_id, handshakes[1].api_hash, session_string>>
                 /\ Blocks[1] = print_config(handshakes[1].api_id, handshakes[1].api_hash,
                                             session_string)

C10_Witness == Parsed /\ ~args.demo /\ Len(Blocks) = 1 /\ Exited /\ exit_status = 0
====
